---- MODULE Spec2Model ----
(***************************************************************************)
(* Model of src/trade/api/fameex_api.js: the FameEX REST client adapter.    *)
(*                                                                         *)
(* JavaScript strings are sequences of tokens (a token is a character or   *)
(* an indivisible run of characters), so that concatenation, trimming and  *)
(* "contains" are computed rather than assumed.  JavaScript values that    *)
(* may be undefined carry an explicit type tag.                            *)
(***************************************************************************)
EXTENDS Integers, Sequences, FiniteSets, TLC

VARIABLES WEB_BASE, config, log, calls, reqs

vars == <<WEB_BASE, config, log, calls, reqs>>

(***************************************************************************)
(* Bounds of the model.                                                    *)
(***************************************************************************)
MaxRequests == 2
MaxCalls == 2
MaxTime == 2

Requests == 1..MaxRequests

(***************************************************************************)
(* Strings.                                                                *)
(***************************************************************************)
Str(tok) == <<tok>>

\* s.includes(sub)
Contains(s, sub) ==
  \E k \in 0..(Len(s) - Len(sub)) :
    \A j \in 1..Len(sub) : s[k + j] = sub[j]

\* Decimal rendering of a number inside a template literal or a + concatenation.
NumText(n) == ToString(n)

(***************************************************************************)
(* The module's constant tables.                                           *)
(***************************************************************************)
httpErrorCodeKeys ==
  {"112002", "112005", "112007", "112008", "112009", "112010", "112011",
   "112015", "112020", "112021", "112022", "112047", "112048", "230030"}

httpErrorCodeDescriptions ==
  [k \in httpErrorCodeKeys |->
     CASE k = "112002" -> "API single key traffic exceeds limit"
       [] k = "112005" -> "API request frequency exceeded"
       [] k = "112007" -> "API-Key creation failed"
       [] k = "112008" -> "API-Key remark name already exists"
       [] k = "112009" -> "The number of API-Key creation exceeds the limit (a single user can create up to 5 APIs)"
       [] k = "112010" -> "API-Key is invalid (the time limit for a single Key is 60 natural days)"
       [] k = "112011" -> "API request IP access is restricted (the bound IP is inconsistent with the request IP)"
       [] k = "112015" -> "Signature error"
       [] k = "112020" -> "Wrong signature"
       [] k = "112021" -> "Wrong signature version"
       [] k = "112022" -> "Signature timestamp error"
       [] k = "112047" -> "The spot API interface is temporarily inaccessible"
       [] k = "112048" -> "The futures API interface is temporarily inaccessible"
       [] k = "230030" -> "Please operate after KYC certification"]

\* statusCodes.ok (a number) and statusCodes.zero (a string)
statusCodesOk == 200
statusCodesZero == "0"

versioningV1 == "/v1"
versioningV2 == "/v2"

\* httpOptions.timeout
RequestTimeout == 10000

(***************************************************************************)
(* JavaScript values.                                                      *)
(***************************************************************************)
\* A scalar that may be undefined: type is "undefined", "number" or "string";
\* text is its rendering (decimal digits for a number).
Undefined == [type |-> "undefined", text |-> "undefined"]
Num(n) == [type |-> "number", text |-> NumText(n)]
StrVal(t) == [type |-> "string", text |-> t]

\* x === n for a number literal n, x === s for a string literal s
StrictEqNum(x, n) == x.type = "number" /\ x.text = NumText(n)
StrictEqStr(x, s) == x.type = "string" /\ x.text = s

\* A message field of a body: a string (chars) or undefined.
NoMsg == [type |-> "undefined", chars |-> <<>>]
MsgStr(chars) == [type |-> "string", chars |-> chars]

\* The data of a response: undefined (no body), null, a primitive string, or an
\* object with the optional fields code, msg, data and, once handleResponse has
\* annotated it, fameexErrorInfo (<<>> while the field is not set).
Body(type, text, code, msg, data) ==
  [type |-> type, text |-> text, code |-> code, msg |-> msg, data |-> data,
   fameexErrorInfo |-> <<>>]

BodyUndefined == Body("undefined", "", Undefined, NoMsg, Undefined)
BodyNull == Body("null", "", Undefined, NoMsg, Undefined)
BodyString(text) == Body("string", text, Undefined, NoMsg, Undefined)
BodyObject(code, msg, data) == Body("object", "", code, msg, data)

\* typeof data === 'object'
TypeofObject(data) == data.type \in {"object", "null"}

\* data?.code and data?.msg
OptCode(data) == IF data.type = "object" THEN data.code ELSE Undefined
OptMsg(data) == IF data.type = "object" THEN data.msg ELSE NoMsg

\* JSON.stringify(data), as it renders inside a template literal
JSONStringify(data) ==
  CASE data.type = "undefined" -> Str("undefined")
    [] data.type = "null" -> Str("null")
    [] data.type = "string" -> <<"\"", data.text, "\"">>
    [] OTHER ->
         <<"{">>
         \o (IF data.code.type = "undefined" THEN <<>>
             ELSE <<"code:", data.code.type, data.code.text, ",">>)
         \o (IF data.msg.type = "undefined" THEN <<>>
             ELSE <<"msg:", data.msg.type>> \o data.msg.chars \o <<",">>)
         \o (IF data.data.type = "undefined" THEN <<>>
             ELSE <<"data:", data.data.text, ",">>)
         \o (IF data.fameexErrorInfo = <<>> THEN <<>>
             ELSE <<"fameexErrorInfo:">> \o data.fameexErrorInfo)
         \o <<"}">>

\* An optional number (status) and an optional string (statusText).
NoStatus == [n |-> 0, def |-> FALSE]
Status(n) == [n |-> n, def |-> TRUE]

\* The embedded response of an axios error, when there is one.
NoResponse ==
  [data |-> BodyUndefined, present |-> FALSE, status |-> NoStatus,
   statusText |-> Undefined]
Response(n, statusText, data) ==
  [data |-> data, present |-> TRUE, status |-> Status(n),
   statusText |-> StrVal(statusText)]

\* What axios hands to a callback: a response (status, statusText and data are
\* its own fields) or an error (they are the fields of error.response, if any).
\* text is String(responseOrError).
AxiosResponse(n, statusText, data) ==
  [text |-> Str("[object Object]"), data |-> data, status |-> Status(n),
   statusText |-> StrVal(statusText), kind |-> "response", response |-> NoResponse]
AxiosError(text, response) ==
  [text |-> text, data |-> BodyUndefined, status |-> NoStatus,
   statusText |-> Undefined, kind |-> "error", response |-> response]

\* An exception thrown by the adapter's own code, as the .catch callback gets it.
ThrownError(text) == AxiosError(text, NoResponse)

NoOutcome == AxiosError(<<>>, NoResponse)

\* a ?? b on optional values
CoalesceStatus(a, b) == IF a.def THEN a ELSE b
CoalesceScalar(a, b) == IF a.type # "undefined" THEN a ELSE b
CoalesceBody(a, b) == IF a.type \notin {"undefined", "null"} THEN a ELSE b
CoalesceMsg(a, b) == IF a.type # "undefined" THEN a ELSE b

(***************************************************************************)
(* Loggers.  The module starts with log = {}: an object with no methods,   *)
(* so that log.log(...) and log.warn(...) throw a TypeError.                *)
(***************************************************************************)
EmptyLog == [id |-> "{}", hasLog |-> FALSE, hasWarn |-> FALSE]
Logger(id) == [id |-> id, hasLog |-> TRUE, hasWarn |-> TRUE]

(***************************************************************************)
(* helpers/utils (not part of the source at hand).                         *)
(***************************************************************************)
TrimChars == {" ", "."}

RECURSIVE TrimStart(_)
TrimStart(s) ==
  IF s # <<>> /\ Head(s) \in TrimChars THEN TrimStart(Tail(s)) ELSE s

RECURSIVE TrimEnd(_)
TrimEnd(s) ==
  IF s # <<>> /\ s[Len(s)] \in TrimChars
  THEN TrimEnd(SubSeq(s, 1, Len(s) - 1)) ELSE s

\* trimAny(str, ' .') on a string
TrimAny(s) == TrimEnd(TrimStart(s))

\* getParamsString(params): "k=v" pairs joined by "&"; '' for an empty object
RECURSIVE GetParamsString(_)
GetParamsString(data) ==
  IF data = <<>> THEN <<>>
  ELSE <<data[1][1], "=", data[1][2]>>
       \o (IF Len(data) > 1 THEN <<"&">> ELSE <<>>)
       \o GetParamsString(Tail(data))

(***************************************************************************)
(* handleResponse                                                          *)
(***************************************************************************)
\* What a promise is settled with: nothing yet, body.data, the body itself, or
\* an error string.
NoValue ==
  [text |-> <<>>, kind |-> "none", payload |-> Undefined, body |-> BodyUndefined]
DataValue(payload) ==
  [text |-> <<>>, kind |-> "data", payload |-> payload, body |-> BodyUndefined]
BodyValue(body) ==
  [text |-> <<>>, kind |-> "body", payload |-> Undefined, body |-> body]
TextValue(text) ==
  [text |-> text, kind |-> "string", payload |-> Undefined, body |-> BodyUndefined]

\* A faulty variant of NormalizedError: the body's own msg is tried before the table.
NormalizedErrorBodyFirst(data) ==
  LET code == OptCode(data)
      key == code.text
      described ==
        IF code.type # "undefined" /\ key \in httpErrorCodeKeys
        THEN MsgStr(Str(httpErrorCodeDescriptions[key])) ELSE NoMsg
  IN  [code |-> CoalesceScalar(code, StrVal("No error code")),
       msg |-> CoalesceMsg(OptMsg(data),
                 CoalesceMsg(described, MsgStr(Str("Unknown error"))))]

\* The object built on lines 68-71.
NormalizedError(data) ==
  LET code == OptCode(data)
      key == code.text     \* the property key a code is coerced to
      described ==
        IF code.type # "undefined" /\ key \in httpErrorCodeKeys
        THEN MsgStr(Str(httpErrorCodeDescriptions[key])) ELSE NoMsg
  IN  [code |-> CoalesceScalar(code, StrVal("No error code")),
       msg |-> CoalesceMsg(described,
                 CoalesceMsg(OptMsg(data), MsgStr(Str("Unknown error"))))]

NoError == [code |-> Undefined, msg |-> NoMsg]

\* What one run of handleResponse does: settle is "resolve", "reject" or "none"
\* (neither callback was called), value is what it was called with, threw tells
\* that an exception left the function (thrown is its String()), caught is the
\* String() of the exception the catch block caught (<<>> when it was not
\* entered), lines are the logger calls that returned, error is the object of
\* lines 68-71.
Outcome(settle, value, threw, thrown, caught, lines, error) ==
  [settle |-> settle, value |-> value, threw |-> threw, thrown |-> thrown,
   caught |-> caught, lines |-> lines, error |-> error]

LogLine(level, text) == [text |-> text, level |-> level]

NotAFunction(method) == <<"TypeError: log.", method, " is not a function">>

\* The catch block, lines 96-99.
CatchBlock(logger, data, caught, reqParameters, url, error) ==
  IF ~logger.hasWarn
  THEN Outcome("none", NoValue, TRUE, NotAFunction("warn"), caught, <<>>, error)
  ELSE Outcome("reject",
         TextValue(<<"Unable to process data: ">> \o JSONStringify(data)
                   \o <<". ">> \o caught),
         FALSE, <<>>, caught,
         <<LogLine("warn",
             <<"Error while processing response of request to ", url,
               " with data ">> \o reqParameters \o <<": ">> \o caught
             \o <<". Data object I've got: ">> \o JSONStringify(data) \o <<".">>)>>,
         error)

\* The else branch of the try block, lines 79-94.
ElseBranch(responseOrError, logger, data, httpCode, httpMessage, reqParameters, url, error) ==
  LET fameexErrorInfo == <<"[", error.code.text, "] ">> \o TrimAny(error.msg.chars)
      errorMessage ==
        IF httpCode.def /\ httpCode.n # 0
        THEN <<NumText(httpCode.n), " ", httpMessage.text, ", ">> \o fameexErrorInfo
        ELSE responseOrError.text
      annotated == [data EXCEPT !.fameexErrorInfo = fameexErrorInfo]
  IN  IF data.type = "null"
      THEN CatchBlock(logger, data,
             Str("TypeError: Cannot set properties of null (setting 'fameexErrorInfo')"),
             reqParameters, url, error)
      ELSE
      LET data2 == IF TypeofObject(data) THEN annotated ELSE data
      IN  IF httpCode.def /\ httpCode.n = statusCodesOk
          THEN IF ~logger.hasLog
               THEN CatchBlock(logger, data2, NotAFunction("log"),
                               reqParameters, url, error)
               ELSE Outcome("resolve", BodyValue(data2), FALSE, <<>>, <<>>,
                      <<LogLine("log",
                          <<"FameEX processed a request to ", url, " with data ">>
                          \o reqParameters \o <<", but with error: ">>
                          \o error.msg.chars \o <<". Resolving...">>)>>,
                      error)
          ELSE IF ~logger.hasWarn
               THEN CatchBlock(logger, data2, NotAFunction("warn"),
                               reqParameters, url, error)
               ELSE Outcome("reject", TextValue(errorMessage), FALSE, <<>>, <<>>,
                      <<LogLine("warn",
                          <<"Request to ", url, " with data ">> \o reqParameters
                          \o <<" failed. details: ">> \o errorMessage
                          \o <<". Rejecting...">>)>>,
                      error)

\* A faulty variant of Success: the application code alone decides.
SuccessAnyStatus(httpCode, data) ==
  \/ StrictEqNum(data.code, statusCodesOk)
  \/ StrictEqStr(data.code, statusCodesZero)

\* success, line 64, where data.code can be read
Success(httpCode, data) ==
  /\ httpCode.def /\ httpCode.n = statusCodesOk
  /\ \/ StrictEqNum(data.code, statusCodesOk)
     \/ StrictEqStr(data.code, statusCodesZero)

handleResponse(responseOrError, logger, queryString, url) ==
  LET httpCode == CoalesceStatus(responseOrError.status,
                                 responseOrError.response.status)
      httpMessage == CoalesceScalar(responseOrError.statusText,
                                    responseOrError.response.statusText)
      data == CoalesceBody(responseOrError.data, responseOrError.response.data)
      \* data.code is read only when httpCode === 200 (&& short-circuits)
      readsCode == httpCode.def /\ httpCode.n = statusCodesOk
      error == NormalizedError(data)
      reqParameters ==
        IF queryString # <<>> THEN queryString ELSE Str("{ No parameters }")
  IN  IF readsCode /\ data.type \in {"undefined", "null"}
      THEN Outcome("none", NoValue, TRUE,
             <<"TypeError: Cannot read properties of ", data.type,
               " (reading 'code')">>,
             <<>>, <<>>, NoError)
      ELSE IF Success(httpCode, [code |-> OptCode(data)])
           THEN Outcome("resolve", DataValue(data.data), FALSE, <<>>, <<>>, <<>>, error)
           ELSE ElseBranch(responseOrError, logger, data, httpCode, httpMessage,
                           reqParameters, url, error)

(***************************************************************************)
(* Signing and request construction.                                       *)
(***************************************************************************)
\* JSON.stringify(data) of a request's parameter object (keys in insertion order)
RECURSIVE StringifyPairs(_)
StringifyPairs(data) ==
  IF data = <<>> THEN <<>>
  ELSE <<"\"", data[1][1], "\":\"", data[1][2], "\"">>
       \o (IF Len(data) > 1 THEN <<",">> ELSE <<>>)
       \o StringifyPairs(Tail(data))

StringifyData(data) == <<"{">> \o StringifyPairs(data) \o <<"}">>

\* type.toUpperCase()
ToUpperCase(type) ==
  CASE type = "get" -> "GET"
    [] type = "post" -> "POST"
    [] type = "delete" -> "DELETE"
    [] OTHER -> type

\* HMAC-SHA256 as a function that keeps what went into it: the key and the
\* message timestamp + method + requestPath + payload.
getSignature(secret, timestamp, method, requestPath, payload) ==
  [key |-> secret, hmac |-> "sha256/hex",
   message |-> <<NumText(timestamp), method, requestPath>> \o payload]

NoSignature == [key |-> "", hmac |-> "", message |-> <<>>]

\* A faulty variant of SignPayload: the serialized data is signed whatever the method.
SignPayloadAlways(type, stringifiedData) == stringifiedData

\* signPayload, line 117
SignPayload(type, stringifiedData) ==
  IF type = "post" THEN stringifiedData ELSE <<>>

\* The arguments getSignature was called with, line 121.
SignArgs(secret, timestamp, method, requestPath, payload) ==
  [payload |-> payload, method |-> method, secret |-> secret,
   timestamp |-> timestamp, requestPath |-> requestPath]

NoSignArgs == SignArgs("", 0, "", "", <<>>)

NoHeaders ==
  [present |-> FALSE, ContentType |-> "", AccessKey |-> Undefined,
   SecretKey |-> Undefined, Timestamp |-> 0, SignatureVersion |-> "",
   SignatureMethod |-> "", Signature |-> NoSignature]

HttpOptions(url, method, headers, hasData, data, params) ==
  [data |-> data, method |-> method, url |-> url, headers |-> headers,
   hasData |-> hasData, params |-> params, timeout |-> RequestTimeout]

NoHttpOptions ==
  [data |-> <<>>, method |-> "", url |-> <<>>, headers |-> NoHeaders,
   hasData |-> FALSE, params |-> <<>>, timeout |-> 0]

(***************************************************************************)
(* State.                                                                  *)
(*   WEB_BASE, config, log  the module's variables (lines 42-48)           *)
(*   calls                  the setConfig calls made so far (history)      *)
(*   reqs                   the requests: the promise each returned, the   *)
(*                          axios exchange behind it and its callbacks     *)
(***************************************************************************)
Pending == [value |-> NoValue, state |-> "pending"]

IdleRequest ==
  [kind |-> "none", thrown |-> <<>>, caught |-> <<>>, lines |-> <<>>,
   error |-> NoError, logger |-> EmptyLog, url |-> <<>>, queryString |-> <<>>,
   pc |-> "idle", httpOptions |-> NoHttpOptions, signArgs |-> NoSignArgs,
   outcome |-> NoOutcome, promise |-> Pending, settleCalls |-> 0,
   entries |-> 0, uncaught |-> FALSE]

DefaultBase == "https://api.fameex.com"

Init ==
  /\ WEB_BASE = DefaultBase
  /\ config = [apiKey |-> StrVal(""), secret_key |-> StrVal(""),
               tradePwd |-> StrVal("")]
  /\ log = EmptyLog
  /\ calls = <<>>
  /\ reqs = [i \in Requests |-> IdleRequest]

(***************************************************************************)
(* setConfig, lines 194-210                                                *)
(***************************************************************************)
\* if (x): a string is truthy unless empty
Truthy(x) == x.type = "string" /\ x.text # ""

NoLogger == [logger |-> EmptyLog, given |-> FALSE]
Given(logger) == [logger |-> logger, given |-> TRUE]

ConfigArgs(apiServer, apiKey, secretKey, tradePwd, logger, publicOnly) ==
  [logger |-> logger, apiKey |-> apiKey, tradePwd |-> tradePwd,
   apiServer |-> apiServer, secretKey |-> secretKey, publicOnly |-> publicOnly]

\* A faulty variant of SetCredentials: the publicOnly flag is ignored.
SetCredentialsAlways(old, a) ==
  [apiKey |-> a.apiKey, secret_key |-> a.secretKey, tradePwd |-> a.tradePwd]

\* config after the call
SetCredentials(old, a) ==
  IF ~a.publicOnly
  THEN [apiKey |-> a.apiKey, secret_key |-> a.secretKey, tradePwd |-> a.tradePwd]
  ELSE old

setConfig(a, track) ==
  /\ track => Len(calls) < MaxCalls
  /\ WEB_BASE' = IF Truthy(a.apiServer) THEN a.apiServer.text ELSE WEB_BASE
  /\ log' = IF a.logger.given THEN a.logger.logger ELSE log
  /\ config' = SetCredentials(config, a)
  /\ calls' = IF track THEN Append(calls, a) ELSE calls
  /\ UNCHANGED reqs

(***************************************************************************)
(* publicRequest and protectedRequest up to the axios call                 *)
(***************************************************************************)
publicRequest(i, type, path, params) ==
  /\ reqs[i].pc = "idle"
  /\ LET url == <<WEB_BASE, path>>
         queryString == GetParamsString(params)
     IN  reqs' = [reqs EXCEPT ![i] =
           [@ EXCEPT !.pc = "pending", !.kind = "public", !.url = url,
                     !.queryString = queryString,
                     !.httpOptions =
                        HttpOptions(url, type, NoHeaders, FALSE, <<>>, params)]]
  /\ UNCHANGED <<WEB_BASE, config, log, calls>>

protectedRequest(i, type, path, data, now) ==
  /\ reqs[i].pc = "idle"
  \* crypto.createHmac throws on a key that is not a string: no promise is made
  /\ config.secret_key.type = "string"
  /\ LET url == <<WEB_BASE, path>>
         bodyString == GetParamsString(data)
         stringifiedData == StringifyData(data)
         timestamp == now
         signPayload == SignPayload(type, stringifiedData)
         method == ToUpperCase(type)
         sign == getSignature(config.secret_key.text, timestamp, method, path,
                              signPayload)
         headers ==
           [present |-> TRUE, ContentType |-> "application/json",
            AccessKey |-> config.apiKey, SecretKey |-> config.secret_key,
            Timestamp |-> timestamp, SignatureVersion |-> "v1.0",
            SignatureMethod |-> "HmacSHA256", Signature |-> sign]
         httpOptions ==
           IF type = "post"
           THEN HttpOptions(url, type, headers, TRUE, stringifiedData, <<>>)
           ELSE HttpOptions(url, type, headers, FALSE, <<>>, data)
     IN  reqs' = [reqs EXCEPT ![i] =
           [@ EXCEPT !.pc = "pending", !.kind = "protected", !.url = url,
                     !.queryString = bodyString,
                     !.httpOptions = httpOptions,
                     !.signArgs = SignArgs(config.secret_key.text, timestamp,
                                           method, path, signPayload)]]
  /\ UNCHANGED <<WEB_BASE, config, log, calls>>

(***************************************************************************)
(* The callbacks of axios(httpOptions).then(...).catch(...)                 *)
(***************************************************************************)
\* A faulty variant of ResolverOf: resolve and reject kept in one shared place, so that
\* a callback holds those of the request issued last.
ResolverOfShared(rs, i) ==
  CHOOSE t \in Requests :
    /\ rs[t].pc # "idle"
    /\ \A u \in Requests : rs[u].pc # "idle" => u <= t

\* The request whose resolve and reject a callback of request i holds: the
\* pair its own Promise executor was given (closure of lines 123, 146, 147).
ResolverOf(rs, i) == i

\* resolve(value) or reject(value) on a promise: the first call settles it,
\* a later call changes nothing.
Settle(r, out) ==
  IF out.settle = "none" THEN r
  ELSE [r EXCEPT
          !.settleCalls = @ + 1,
          !.promise = IF @.state = "pending"
                      THEN [value |-> out.value,
                            state |-> IF out.settle = "resolve"
                                      THEN "fulfilled" ELSE "rejected"]
                      ELSE @]

\* One run of handleResponse in a callback of request i: the bookkeeping of
\* the run on request i, the settlement on the promise its callbacks hold.
RunCallback(i, responseOrError, first, pcAfter, out) ==
  LET t == ResolverOf(reqs, i)
      ran == [reqs EXCEPT ![i] =
                [@ EXCEPT !.pc = pcAfter,
                          !.outcome = IF first THEN responseOrError ELSE @,
                          !.logger = log,
                          !.entries = @ + 1,
                          !.uncaught = out.threw /\ pcAfter = "closed",
                          !.thrown = out.thrown,
                          !.caught = out.caught,
                          !.error = IF first THEN out.error ELSE @,
                          !.lines = @ \o out.lines]]
  IN  [ran EXCEPT ![t] = Settle(@, out)]

\* .then((response) => handleResponse(response, ...)): axios fulfilled.  An
\* exception leaving handleResponse rejects the promise .then returned, which
\* the .catch callback is attached to.
thenCallback(i, response) ==
  /\ reqs[i].pc = "pending"
  /\ response.kind = "response"
  /\ LET out == handleResponse(response, log, reqs[i].queryString, reqs[i].url)
     IN  reqs' = RunCallback(i, response, TRUE,
                             IF out.threw THEN "thenThrew" ELSE "closed", out)
  /\ UNCHANGED <<WEB_BASE, config, log, calls>>

\* .catch((error) => handleResponse(error, ...)): axios rejected.  An
\* exception leaving handleResponse here is an unhandled rejection.
catchCallback(i, error) ==
  /\ reqs[i].pc = "pending"
  /\ error.kind = "error"
  /\ LET out == handleResponse(error, log, reqs[i].queryString, reqs[i].url)
     IN  reqs' = RunCallback(i, error, TRUE, "closed", out)
  /\ UNCHANGED <<WEB_BASE, config, log, calls>>

\* .catch after the .then callback threw: error is what handleResponse threw.
catchAfterThen(i) ==
  /\ reqs[i].pc = "thenThrew"
  /\ LET error == ThrownError(reqs[i].thrown)
         out == handleResponse(error, log, reqs[i].queryString, reqs[i].url)
     IN  reqs' = RunCallback(i, error, FALSE, "closed", out)
  /\ UNCHANGED <<WEB_BASE, config, log, calls>>

(***************************************************************************)
(* Inputs.                                                                 *)
(***************************************************************************)
Codes ==
  {Undefined, Num(200), StrVal("0"), StrVal("200"), Num(0), Num(112015),
   StrVal("112011"), Num(999)}

Msgs ==
  {NoMsg, MsgStr(<<"bad sig">>), MsgStr(<<" ", ".", "ip", ".", "restricted", ".", " ">>),
   MsgStr(<<>>)}

Payloads == {Undefined, [type |-> "object", text |-> "{balance:5}"]}

Bodies ==
  {BodyUndefined, BodyNull, BodyString("<html>")}
  \cup {BodyObject(c, m, d) : c \in Codes, m \in Msgs, d \in Payloads}

\* axios fulfils for a 2xx status and rejects for any other or for no response
Responses ==
  {AxiosResponse(200, "OK", b) : b \in Bodies}
  \cup {AxiosResponse(201, "Created", b) : b \in Bodies}

TransportErrors ==
  {AxiosError(Str("AxiosError: timeout of 10000ms exceeded"), NoResponse),
   AxiosError(Str("Error: Network Error"), NoResponse)}

Errors ==
  {AxiosError(Str("AxiosError: Request failed with status code 401"),
              Response(401, "Unauthorized", b)) : b \in Bodies}
  \cup TransportErrors

\* A few outcomes of each shape, for the runs with several requests.
FewResponses ==
  {AxiosResponse(200, "OK",
     BodyObject(Num(200), NoMsg, [type |-> "object", text |-> "{balance:5}"])),
   AxiosResponse(200, "OK",
     BodyObject(Num(112015), MsgStr(<<"bad sig">>), Undefined)),
   AxiosResponse(200, "OK", BodyNull)}

FewErrors ==
  {AxiosError(Str("AxiosError: Request failed with status code 401"),
              Response(401, "Unauthorized",
                BodyObject(Num(112011), MsgStr(<<"ip restricted">>), Undefined))),
   AxiosError(Str("Error: Network Error"), NoResponse)}

Types == {"get", "post", "delete"}

Paths == {versioningV1 \o "/api/spot/orders", versioningV2 \o "/public/assets"}

Datas ==
  {<<>>, <<<<"symbol", "BTC-USDT">>>>,
   <<<<"symbol", "BTC-USDT">>, <<"orderId", "1">>>>,
   <<<<"orderId", "1">>, <<"symbol", "BTC-USDT">>>>}

Times == 1..MaxTime

Loggers == {Logger("L1"), Logger("L2")}

(***************************************************************************)
(* Spec: several requests in flight, their completions interleaved with    *)
(* each other and with setConfig.                                          *)
(***************************************************************************)
Reconfigure ==
  \E lg \in {NoLogger, Given(Logger("L1"))}, publicOnly \in BOOLEAN :
    setConfig(ConfigArgs(Undefined, StrVal("K1"), StrVal("S1"), StrVal("P1"),
                         lg, publicOnly), FALSE)

CurrenciesPublic ==
  \E i \in Requests : publicRequest(i, "get", versioningV2 \o "/public/assets", <<>>)

AddOrder ==
  \E i \in Requests :
    protectedRequest(i, "post", versioningV1 \o "/api/spot/orders",
                     <<<<"symbol", "BTC-USDT">>>>, 1)

Fulfilled == \E i \in Requests, r \in FewResponses : thenCallback(i, r)

Failed == \E i \in Requests, e \in FewErrors : catchCallback(i, e)

Rethrown == \E i \in Requests : catchAfterThen(i)

Next ==
  \/ Reconfigure
  \/ CurrenciesPublic
  \/ AddOrder
  \/ Fulfilled
  \/ Failed
  \/ Rethrown

Spec == Init /\ [][Next]_vars

(***************************************************************************)
(* SpecClassify: one request, every shape of outcome, every logger.        *)
(***************************************************************************)
SupplyLogger ==
  \E lg \in Loggers :
    setConfig(ConfigArgs(Undefined, StrVal("K1"), StrVal("S1"), StrVal("P1"),
                         Given(lg), TRUE), FALSE)

Balances ==
  protectedRequest(1, "get", versioningV1 \o "/api/account/wallet", <<>>, 1)

OrderDetails ==
  protectedRequest(1, "post", versioningV1 \o "/api/spot/orderdetail",
                   <<<<"symbol", "BTC-USDT">>>>, 1)

FulfilledAny ==
  \E r \in Responses : thenCallback(1, r)

FailedAny ==
  \E e \in Errors : catchCallback(1, e)

RethrownOne == catchAfterThen(1)

NextClassify ==
  \/ SupplyLogger
  \/ Balances
  \/ OrderDetails
  \/ FulfilledAny
  \/ FailedAny
  \/ RethrownOne

SpecClassify == Init /\ [][NextClassify]_vars

(***************************************************************************)
(* SpecSign: protected requests of every form under every configuration.   *)
(***************************************************************************)
SetKeys ==
  \E server \in {Undefined, StrVal("https://test.fameex.com")},
     secret \in {Undefined, StrVal("S1"), StrVal("S2")},
     publicOnly \in BOOLEAN :
    setConfig(ConfigArgs(server, StrVal("K1"), secret, StrVal("P1"),
                         NoLogger, publicOnly), FALSE)

ProtectedAny ==
  \E type \in Types, path \in Paths, data \in Datas, now \in Times :
    protectedRequest(1, type, path, data, now)

NextSign ==
  \/ SetKeys
  \/ ProtectedAny

SpecSign == Init /\ [][NextSign]_vars

(***************************************************************************)
(* SpecConfig: sequences of setConfig calls, recorded in calls.            *)
(***************************************************************************)
SetConfigAny ==
  \E server \in {Undefined, StrVal(""), StrVal("https://test.fameex.com")},
     apiKey \in {Undefined, StrVal("K1")},
     secret \in {StrVal("S1"), StrVal("S2")},
     lg \in {NoLogger, Given(Logger("L1")), Given(Logger("L2"))},
     publicOnly \in BOOLEAN :
    setConfig(ConfigArgs(server, apiKey, secret, StrVal("P1"), lg, publicOnly),
              TRUE)

NextConfig == SetConfigAny

SpecConfig == Init /\ [][NextConfig]_vars

(***************************************************************************)
(* Properties.  They are stated on the raw outcome of a request's exchange  *)
(* (reqs[i].outcome) and on what its promise ended with.                   *)
(***************************************************************************)
\* httpStatus, httpStatusText and body of an outcome.
HttpStatusOf(o) == IF o.kind = "response" THEN o.status ELSE o.response.status
HttpStatusTextOf(o) ==
  IF o.kind = "response" THEN o.statusText ELSE o.response.statusText
BodyOf(o) == IF o.kind = "response" THEN o.data ELSE o.response.data

Closed(i) == reqs[i].pc = "closed"

IsSuccess(o) ==
  /\ HttpStatusOf(o).def /\ HttpStatusOf(o).n = 200
  /\ BodyOf(o).type = "object"
  /\ \/ BodyOf(o).code = [type |-> "number", text |-> "200"]
     \/ BodyOf(o).code = [type |-> "string", text |-> "0"]

InTable(code) == code.type # "undefined" /\ code.text \in httpErrorCodeKeys

\* The normalized error the claims describe for a body.
ExpectedCode(b) ==
  IF b.type = "object" /\ b.code.type # "undefined" THEN b.code
  ELSE [type |-> "string", text |-> "No error code"]
ExpectedMsg(b) ==
  IF b.type = "object" /\ InTable(b.code)
  THEN [type |-> "string", chars |-> <<httpErrorCodeDescriptions[b.code.text]>>]
  ELSE IF b.type = "object" /\ b.msg.type # "undefined" THEN b.msg
  ELSE [type |-> "string", chars |-> <<"Unknown error">>]

\* The diagnostic "<status> <statusText>, [<code>] <trimmed message>".
ExpectedInfo(b) ==
  <<"[", ExpectedCode(b).text, "] ">>
  \o TrimAny(ExpectedMsg(b).chars)
ExpectedDiagnostic(o) ==
  <<NumText(HttpStatusOf(o).n), " ", HttpStatusTextOf(o).text, ", ">>
  \o ExpectedInfo(BodyOf(o))

\* C1: every request whose callbacks have run has had its promise settled
\* exactly once (resolve or reject was called once, the promise is not
\* pending), and no request is ever settled twice.
C1_SettledExactlyOnce ==
  \A i \in Requests :
    /\ reqs[i].settleCalls <= 1
    /\ Closed(i) => reqs[i].settleCalls = 1 /\ reqs[i].promise.state # "pending"

\* C2: a request's promise is fulfilled with body.data if and only if its
\* outcome has httpStatus 200 and body.code the number 200 or the string "0".
C2_ResolvesDataIffSuccess ==
  \A i \in Requests :
    LET r == reqs[i]
        resolvedData == r.promise.state = "fulfilled" /\ r.promise.value.kind = "data"
    IN  /\ resolvedData <=> (Closed(i) /\ IsSuccess(r.outcome))
        /\ resolvedData => r.promise.value.payload = BodyOf(r.outcome).data
        /\ (Closed(i) /\ IsSuccess(r.outcome)) => r.settleCalls = 1

C2_Witness ==
  \E i \in Requests :
    /\ Closed(i) /\ IsSuccess(reqs[i].outcome)
    /\ BodyOf(reqs[i].outcome).code.type = "string"
    /\ reqs[i].promise.value = DataValue([type |-> "object", text |-> "{balance:5}"])

\* C3: an outcome with httpStatus 200 that is not a success and whose body is
\* an object ends with the promise fulfilled with the original body plus one
\* field holding "[<code>] <message>" (the table's description for a code of
\* the table).
C3_SoftFailureResolves ==
  \A i \in Requests :
    LET r == reqs[i]
        o == r.outcome
    IN  (/\ Closed(i)
         /\ HttpStatusOf(o).def /\ HttpStatusOf(o).n = 200
         /\ BodyOf(o).type = "object"
         /\ ~IsSuccess(o))
        => /\ r.promise.state = "fulfilled"
           /\ r.promise.value.kind = "body"
           /\ [r.promise.value.body EXCEPT !.fameexErrorInfo = <<>>] = BodyOf(o)
           /\ Contains(r.promise.value.body.fameexErrorInfo,
                       <<"[", ExpectedCode(BodyOf(o)).text, "] ">>
                       \o (IF InTable(BodyOf(o).code)
                           THEN <<httpErrorCodeDescriptions[BodyOf(o).code.text]>>
                           ELSE <<>>))

\* C4: an outcome that carries an httpStatus other than 200 ends with the
\* promise rejected with the diagnostic, which the logger's warn got too.
C4_HttpFailureRejects ==
  \A i \in Requests :
    LET r == reqs[i]
        o == r.outcome
    IN  (Closed(i) /\ HttpStatusOf(o).def /\ HttpStatusOf(o).n # 200)
        => /\ r.promise.state = "rejected"
           /\ r.promise.value.text = ExpectedDiagnostic(o)
           /\ \E k \in 1..Len(r.lines) :
                /\ r.lines[k].level = "warn"
                /\ Contains(r.lines[k].text, ExpectedDiagnostic(o))

\* C5: a pure transport failure (no status, no embedded response) ends with
\* no exception leaving handleResponse and the promise rejected with the
\* stringified failure, the normalized error being "No error code" /
\* "Unknown error".
C5_TransportFailureRejects ==
  \A i \in Requests :
    LET r == reqs[i]
        o == r.outcome
    IN  (Closed(i) /\ o.kind = "error" /\ ~o.response.present)
        => /\ ~r.uncaught
           /\ r.promise.state = "rejected"
           /\ r.promise.value.text = o.text
           /\ r.error = [code |-> [type |-> "string", text |-> "No error code"],
                         msg |-> [type |-> "string", chars |-> <<"Unknown error">>]]

\* Processing of the outcome threw: the catch block was entered, or the .then
\* callback threw, or an exception left the .catch callback.
ProcessingThrew(i) ==
  reqs[i].caught # <<>> \/ reqs[i].entries = 2 \/ reqs[i].uncaught

\* C6: whenever processing of a response throws, the promise ends rejected
\* with a text that holds the serialized body and the caught error.
C6_ThrowBecomesRejection ==
  \A i \in Requests :
    LET r == reqs[i]
        raw == BodyOf(r.outcome)
    IN  (Closed(i) /\ ProcessingThrew(i))
        => /\ r.promise.state = "rejected"
           /\ \/ Contains(r.promise.value.text, JSONStringify(raw))
              \/ Contains(r.promise.value.text,
                          JSONStringify([raw EXCEPT !.fameexErrorInfo =
                                           ExpectedInfo(raw)]))
           /\ Contains(r.promise.value.text, r.caught)

\* C7: the payload getSignature got is the string sent as the body for a post
\* and the empty string for any other method; the timestamp and the secret
\* signed are those of the Timestamp and SecretKey headers.
C7_SignedIsSent ==
  \A i \in Requests :
    LET r == reqs[i]
        h == r.httpOptions
    IN  r.kind = "protected"
        => /\ h.method = "post" => h.hasData /\ r.signArgs.payload = h.data
           /\ h.method # "post" => ~h.hasData /\ r.signArgs.payload = <<>>
           /\ r.signArgs.timestamp = h.headers.Timestamp
           /\ h.headers.SecretKey = [type |-> "string", text |-> r.signArgs.secret]
           /\ h.headers.Signature.key = r.signArgs.secret
           /\ h.headers.Signature.message
                = <<ToString(h.headers.Timestamp), r.signArgs.method,
                    r.signArgs.requestPath>>
                  \o (IF h.method = "post" THEN h.data ELSE <<>>)

C7_Witness ==
  \E i \in Requests :
    /\ reqs[i].kind = "protected"
    /\ reqs[i].httpOptions.method = "post"
    /\ reqs[i].httpOptions.data
         = <<"{", "\"", "orderId", "\":\"", "1", "\"", ",",
             "\"", "symbol", "\":\"", "BTC-USDT", "\"", "}">>
    /\ reqs[i].signArgs.secret = "S2"
    /\ reqs[i].signArgs.timestamp = MaxTime

\* The configuration the claim describes after a sequence of setConfig calls.
RECURSIVE ExpectedCredentials(_)
ExpectedCredentials(cs) ==
  IF cs = <<>>
  THEN [apiKey |-> [type |-> "string", text |-> ""],
        secret_key |-> [type |-> "string", text |-> ""],
        tradePwd |-> [type |-> "string", text |-> ""]]
  ELSE LET last == cs[Len(cs)]
       IN  IF last.publicOnly
           THEN ExpectedCredentials(SubSeq(cs, 1, Len(cs) - 1))
           ELSE [apiKey |-> last.apiKey, secret_key |-> last.secretKey,
                 tradePwd |-> last.tradePwd]

RECURSIVE ExpectedBase(_)
ExpectedBase(cs) ==
  IF cs = <<>> THEN "https://api.fameex.com"
  ELSE LET last == cs[Len(cs)]
       IN  IF last.apiServer.type = "string" /\ last.apiServer.text # ""
           THEN last.apiServer.text
           ELSE ExpectedBase(SubSeq(cs, 1, Len(cs) - 1))

RECURSIVE ExpectedLog(_)
ExpectedLog(cs) ==
  IF cs = <<>> THEN [id |-> "{}", hasLog |-> FALSE, hasWarn |-> FALSE]
  ELSE LET last == cs[Len(cs)]
       IN  IF last.logger.given THEN last.logger.logger
           ELSE ExpectedLog(SubSeq(cs, 1, Len(cs) - 1))

\* C8: the stored credentials are those of the last setConfig call made with
\* publicOnly false (the empty strings if there was none); the base URL and
\* the logger are those of the last call that provided one.
C8_CredentialsOfLastPrivateCall ==
  /\ config = ExpectedCredentials(calls)
  /\ WEB_BASE = ExpectedBase(calls)
  /\ log = ExpectedLog(calls)

C8_Witness ==
  /\ Len(calls) = 2
  /\ ~calls[1].publicOnly /\ calls[2].publicOnly
  /\ calls[2].secretKey # calls[1].secretKey
  /\ calls[2].logger.given /\ calls[2].logger.logger # calls[1].logger.logger
  /\ Truthy(calls[2].apiServer)
  /\ config.secret_key = calls[1].secretKey
  /\ log = calls[2].logger.logger

\* C9: a step touches one request at most, a setConfig call none; a promise
\* changes only in a callback of its own request, to what the classification
\* of that request's own outcome gives.
C9_RequestsIndependent ==
  [][/\ \A i, j \in Requests :
          (i # j /\ reqs'[i] # reqs[i]) => reqs'[j] = reqs[j]
     /\ <<WEB_BASE, config, log>>' # <<WEB_BASE, config, log>> => reqs' = reqs
     /\ \A i \in Requests :
          (reqs'[i].promise # reqs[i].promise
             \/ reqs'[i].settleCalls # reqs[i].settleCalls)
          => /\ reqs'[i].entries = reqs[i].entries + 1
             /\ LET own == IF reqs[i].pc = "pending" THEN reqs'[i].outcome
                           ELSE ThrownError(reqs[i].thrown)
                    out == handleResponse(own, log, reqs[i].queryString,
                                          reqs[i].url)
                IN  /\ out.settle # "none"
                    /\ reqs'[i].promise.value = out.value
                    /\ reqs'[i].promise.state
                         = (IF out.settle = "resolve" THEN "fulfilled"
                            ELSE "rejected")]_vars

C9_Witness ==
  \E i, j \in Requests :
    /\ i < j
    /\ Closed(i) /\ reqs[i].uncaught /\ reqs[i].promise.state = "pending"
    /\ Closed(j) /\ reqs[j].promise.state = "fulfilled"
    /\ reqs[j].outcome # reqs[i].outcome

====
